---- MODULE Spec2Model ----
(***************************************************************************)
(* Model of the alert evaluation of lvmapi:                                *)
(*   - tools/weather.py    is_measurament_safe (rolling mean + hysteresis) *)
(*   - routers/alerts.py   route_get_summary (fan-out, gather, compose)    *)
(*                         and route_get_connectivity (the two probes)     *)
(*   - tools/alerts.py     enclosure_alerts and spec_temperature_alerts    *)
(*   - app.py              the fake-state overlay and its endpoints        *)
(*   - cache.py            lvmapi_cache in front of route_get_summary      *)
(*   - tasks.py            power_cycle_ag_cameras and ln2_manual_fill      *)
(*                                                                         *)
(* Specifications: Spec (one summary request and the overlay endpoints),   *)
(* SpecEval (the evaluator under a running clock), SpecLive (actors that   *)
(* may never reply, with fairness), SpecPair (two summary calls at once),  *)
(* SpecTemperature (spec_temperature_alerts over its histories), SpecCache *)
(* (summary requests behind the response cache), SpecAdmin (the overlay    *)
(* endpoints with their HTTP responses), SpecPower (power_cycle_ag_cameras)*)
(* and SpecFill (ln2_manual_fill, with fairness).                          *)
(*                                                                         *)
(* Units are kept as the code keeps them: the `ts` column is a datetime    *)
(* with millisecond resolution and dt.timestamp("ms") yields integer       *)
(* milliseconds since the epoch; time.time() yields seconds since the      *)
(* epoch; `window` and `rolling_average_window` are minutes.               *)
(*                                                                         *)
(* A rolling mean is kept exactly, as the pair [sum, n] of the values it   *)
(* averages; mean >= x is sum >= x * n and mean < x is sum < x * n.        *)
(***************************************************************************)
EXTENDS Integers, Sequences, FiniteSets, TLC

VARIABLES
    now,              \* time.time(): wall clock, seconds since the epoch
    data,             \* the weather station's series: rows sorted by ts (ms)
    cfg,              \* arguments of the is_measurament_safe call under study
    evaluated,        \* the channel was evaluated at this clock value and series
    safe,             \* return value of that is_measurament_safe call, if made
    alert,            \* the alert the route derives from it: true, false or None
    raised,           \* history: an earlier evaluation returned Unsafe
    pc,               \* route_get_summary: position of the request
    results,          \* route_get_summary: results[] of asyncio.gather, per task
    summary,          \* the AlertsSummary returned by the latest request
    use_fake_states,  \* app.state.use_fake_states
    fake_states,      \* app.state.fake_states
    adminCalls,       \* number of administrative calls made so far
    warned,           \* route_get_summary: checks a warnings.warn was issued for
    silent,           \* actors that never reply to a command sent to them
    probes,           \* route_get_connectivity: state and result of each probe
    replies,          \* what each collaborator answers while two calls run
    calls,            \* two calls of route_get_summary: results[] and return value
    temperatures,     \* spectrograph_temperatures_history(): samples per group
    temp_alerts_dict, \* spec_temperature_alerts(): the dict it returns, if called
    cache,            \* lvmapi_cache: the stored summary and its expiry, if any
    admin_reply,      \* HTTP response of the latest administrative request
    power_pc,         \* power_cycle_ag_cameras: position of the task
    power_args,       \* power_cycle_ag_cameras: its arguments cameras, reconnect
    power_tasks,      \* power_cycle_ag_cameras: tasks[], one per telescope
    errors,           \* power_cycle_ag_cameras: the errors list
    power_ran,        \* power_cycle_ag_cameras: the later steps that have run
    power_return,     \* power_cycle_ag_cameras: the dict returned, if any
    fill_pc,          \* ln2_manual_fill: position of the task
    fills_db,         \* the LN2 fill table: its primary keys are 1..fills_db
    fills_db_before,  \* ln2_manual_fill: len(fills_db_before), once read
    fills_db_after,   \* ln2_manual_fill: len(fills_db_after) of the latest poll
    post_response,    \* ln2_manual_fill: outcome of the POST to the cryo server
    elapsed,          \* ln2_manual_fill: seconds waited in the polling loop
    fill_return       \* ln2_manual_fill: the dict returned, if any

vars == <<now, data, cfg, evaluated, safe, alert, raised, pc, results, summary,
          use_fake_states, fake_states, adminCalls, warned, silent, probes,
          replies, calls, temperatures, temp_alerts_dict, cache, admin_reply,
          power_pc, power_args, power_tasks, errors, power_ran, power_return,
          fill_pc, fills_db, fills_db_before, fills_db_after, post_response,
          elapsed, fill_return>>

evalVars == <<now, data, cfg, evaluated, safe, alert, raised>>
routeVars == <<pc, results, summary, warned, silent>>
overlayVars == <<use_fake_states, fake_states, adminCalls>>
connectivityVars == <<probes>>
pairVars == <<replies, calls>>
temperatureVars == <<temperatures, temp_alerts_dict>>
cacheVars == <<cache>>
adminVars == <<admin_reply>>
powerVars == <<power_pc, power_args, power_tasks, errors, power_ran, power_return>>
fillVars == <<fill_pc, fills_db, fills_db_before, fills_db_after, post_response,
              elapsed, fill_return>>
taskVars == <<cacheVars, adminVars, powerVars, fillVars>>
restVars == <<connectivityVars, pairVars, temperatureVars, taskVars>>

----------------------------------------------------------------------------
(* Bounds of the model.                                                    *)

MaxTick == 7
MaxRows == 3
MaxAdminCalls == 2
MaxSamples == 3
MaxCacheTick == 3
MaxFills == 2
Epoch == 100000
TickSeconds == 15 * 60

(* Optional values (bool | None, float | None): None is the empty tuple,   *)
(* a present value x is the one-element tuple <<x>>.                       *)
None == <<>>
Some(x) == <<x>>

(* One entry of the list returned by asyncio.gather(return_exceptions=True)*)
(* : the task's return value, or the exception it raised.                  *)
Ok(v) == [done |-> TRUE, ok |-> TRUE, value |-> v]
Failure == [done |-> TRUE, ok |-> FALSE, value |-> None]
Pending == [done |-> FALSE, ok |-> FALSE, value |-> None]

(* A dict is the set of its <<key, value>> items; {} is the empty dict.    *)
Get(dict, key, default) ==
    IF \E item \in dict : item[1] = key
    THEN (CHOOSE item \in dict : item[1] = key)[2]
    ELSE default

AnyValue(dict) == \E item \in dict : item[2]

----------------------------------------------------------------------------
(* Program constants.                                                      *)

MsPerSecond == 1000
SecondsPerMinute == 60
DefaultWindow == 30
DefaultRollingAverageWindow == 30
WeatherLookback == 5400
WindThreshold == 35
WindReopen == 30
HumidityThreshold == 80
HumidityReopen == 70
DewPointMargin == 3

----------------------------------------------------------------------------
(* get_weather_data: one row of the frame.  dew_point is derived from the  *)
(* temperature and the relative humidity; humidities are multiples of 5 in *)
(* this model, so the division is exact and round(2) changes nothing.      *)

Temperature == 15

WeatherRow(ts, wind, rh, temperature) ==
    [ts |-> ts,
     wind_speed_avg |-> wind,
     relative_humidity |-> rh,
     temperature |-> temperature,
     dew_point |-> temperature - ((100 - rh) \div 5)]

(* The rows the weather service returns for the 1.5 hours the route asks   *)
(* for, start_ts = now - 5400 up to end_ts = now (timestamps in ms).       *)
FetchWeather(series, t) ==
    SelectSeq(series, LAMBDA r : r.ts >= (t - WeatherLookback) * MsPerSecond
                                 /\ r.ts <= t * MsPerSecond)

----------------------------------------------------------------------------
(* is_measurament_safe                                                     *)

RECURSIVE SumOver(_, _, _)
SumOver(idx, df, measurement) ==
    IF idx = {} THEN 0
    ELSE LET i == CHOOSE k \in idx : TRUE
         IN df[i][measurement] + SumOver(idx \ {i}, df, measurement)

(* rolling_mean_by(by="ts", window_size="<m>m"): for every row, the mean   *)
(* of the rows whose ts lies in (ts - m minutes, ts] (closed on the right).*)
RollingMean(df, measurement, rolling_average_window) ==
    [i \in 1..Len(df) |->
        LET w == rolling_average_window * SecondsPerMinute * MsPerSecond
            idx == {j \in 1..Len(df) : df[j].ts > df[i].ts - w /\ df[j].ts <= df[i].ts}
        IN [sum |-> SumOver(idx, df, measurement), n |-> Cardinality(idx)]]

AverageAtLeast(avg, x) == avg.sum >= x * avg.n
AverageBelow(avg, x) == avg.sum < x * avg.n

(* reopen_value = reopen_value or threshold: None and 0 are both falsy.    *)
ReopenOrThreshold(reopen_value, threshold) ==
    IF reopen_value = None \/ reopen_value = Some(0) THEN threshold ELSE reopen_value[1]

InDataWindowAligned(ts, t, window) ==
    ts >= (t - window * SecondsPerMinute) * MsPerSecond

InDataWindowFixed(ts, t, window) ==
    ts > (t - window * SecondsPerMinute) * MsPerSecond

(* data.filter(ts.dt.timestamp("ms") > (now - window * 60)): the column is *)
(* in milliseconds, the right-hand side in seconds.                        *)
InDataWindow(ts, t, window) ==
    ts > (t - window * SecondsPerMinute)

(* data.filter(ts.dt.timestamp("ms") > (now - 2 * window * 60),            *)
(*             ts.dt.timestamp("ms") < (now - window * 60))                *)
InPrevWindow(ts, t, window) ==
    /\ ts > (t - 2 * window * SecondsPerMinute)
    /\ ts < (t - window * SecondsPerMinute)

AnyAbove(avgs, idx, threshold) ==
    \E i \in idx : avgs[i].sum > threshold * avgs[i].n

(* (frame["average"] >= threshold).any()                                   *)
AnyAtOrAbove(avgs, idx, threshold) ==
    \E i \in idx : AverageAtLeast(avgs[i], threshold)

(* (frame["average"] < reopen_value).all(): true of an empty frame.        *)
AllBelow(avgs, idx, reopen) ==
    \A i \in idx : AverageBelow(avgs[i], reopen)

is_measurament_safe(df, measurement, threshold, window, rolling_average_window, reopen_value, t) ==
    LET reopen == ReopenOrThreshold(reopen_value, threshold)
        average == RollingMean(df, measurement, rolling_average_window)
        data_window == {i \in 1..Len(df) : InDataWindow(df[i].ts, t, window)}
        prev_window == {i \in 1..Len(df) : InPrevWindow(df[i].ts, t, window)}
    IN  IF AnyAtOrAbove(average, data_window, threshold) THEN FALSE
        ELSE IF AllBelow(average, data_window, reopen) THEN TRUE
        ELSE IF AnyAtOrAbove(average, prev_window, threshold)
             THEN AllBelow(average, data_window, reopen)
        ELSE TRUE

----------------------------------------------------------------------------
(* route_get_summary, weather part: an alert is computed only from a frame *)
(* that was fetched and has at least one row.  The route reaches the       *)
(* evaluator under the name is_weather_data_safe; it is modelled by the    *)
(* repository's is_measurament_safe, called with the default windows.      *)

MeasurementAlert(weather_data, measurement, threshold, reopen_value, t) ==
    IF weather_data.ok /\ Len(weather_data.value) > 0
    THEN Some(~ is_measurament_safe(weather_data.value, measurement, threshold,
                                    DefaultWindow, DefaultRollingAverageWindow,
                                    reopen_value, t))
    ELSE None

DewPointAlertWithin(weather_data) ==
    IF weather_data.ok /\ Len(weather_data.value) > 0
    THEN LET last_weather == weather_data.value[Len(weather_data.value)]
         IN Some(last_weather.temperature - last_weather.dew_point <= DewPointMargin)
    ELSE None

(* Lines 137-143: the last row of the frame decides the dew point alert.   *)
DewPointAlert(weather_data) ==
    IF weather_data.ok /\ Len(weather_data.value) > 0
    THEN LET last_weather == weather_data.value[Len(weather_data.value)]
         IN Some(last_weather.temperature - last_weather.dew_point < DewPointMargin)
    ELSE None

----------------------------------------------------------------------------
(* app.py: the fake-state overlay.                                         *)

FakeStateKeys == {"wind_alert", "humidity_alert", "rain_alert", "door_alert", "is_day"}

InitialFakeStates == [k \in FakeStateKeys |-> FALSE]

(* route_get_enable_states                                                 *)
EnableFakeStates ==
    /\ adminCalls < MaxAdminCalls
    /\ adminCalls' = adminCalls + 1
    /\ use_fake_states' = TRUE
    /\ UNCHANGED <<fake_states, evalVars, routeVars, restVars>>

(* route_get_disable_states                                                *)
DisableFakeStates ==
    /\ adminCalls < MaxAdminCalls
    /\ adminCalls' = adminCalls + 1
    /\ use_fake_states' = FALSE
    /\ UNCHANGED <<fake_states, evalVars, routeVars, restVars>>

(* route_get_set_fake_state: HTTP 400 for a name that is not a key.        *)
SetFakeState(state, value) ==
    /\ adminCalls < MaxAdminCalls
    /\ adminCalls' = adminCalls + 1
    /\ fake_states' = IF state \in DOMAIN fake_states
                      THEN [fake_states EXCEPT ![state] = value]
                      ELSE fake_states
    /\ UNCHANGED <<use_fake_states, evalVars, routeVars, restVars>>

----------------------------------------------------------------------------
(* tools/alerts.py: enclosure_alerts, from the reply of `lvmecp status`.   *)
(* O2 percentages are kept in tenths of a percent.                         *)

O2Threshold == 195

NominalReply ==
    [did_fail |-> FALSE,
     o2_percent_spectrograph |-> 210,
     o2_percent_utilities |-> 210,
     safety_status_labels |-> {"DOOR_CLOSED", "DOOR_LOCKED"},
     rain_sensor_alarm |-> FALSE,
     engineering_mode |-> [enabled |-> FALSE, plc_software_bypass |-> FALSE,
                           plc_hardware_bypass |-> FALSE]]

(* The nominal reply and the replies that depart from it in one reading,   *)
(* or in both O2 readings; an O2 reading is well below, just below or at   *)
(* the threshold.                                                          *)
EcpReplies ==
    {NominalReply,
     [NominalReply EXCEPT !.o2_percent_spectrograph = 190],
     [NominalReply EXCEPT !.o2_percent_utilities = 190],
     [NominalReply EXCEPT !.o2_percent_spectrograph = 190, !.o2_percent_utilities = 190],
     [NominalReply EXCEPT !.o2_percent_spectrograph = 195],
     [NominalReply EXCEPT !.o2_percent_utilities = 194],
     [NominalReply EXCEPT !.safety_status_labels = {"DOOR_CLOSED"}],
     [NominalReply EXCEPT !.rain_sensor_alarm = TRUE],
     [NominalReply EXCEPT !.engineering_mode.enabled = TRUE],
     [NominalReply EXCEPT !.engineering_mode.plc_software_bypass = TRUE],
     [NominalReply EXCEPT !.engineering_mode.plc_hardware_bypass = TRUE]}

EcpFailedReply == [NominalReply EXCEPT !.did_fail = TRUE]

enclosure_alerts_software_only(status) ==
    IF status.did_fail THEN Failure
    ELSE LET door_alert == ~ ("DOOR_CLOSED" \in status.safety_status_labels
                              /\ "DOOR_LOCKED" \in status.safety_status_labels)
             engineering_override ==
                 \/ status.engineering_mode.enabled
                 \/ status.engineering_mode.plc_software_bypass
         IN Ok({<<"o2_spec_room", status.o2_percent_spectrograph < O2Threshold>>,
                <<"o2_util_room", status.o2_percent_utilities < O2Threshold>>,
                <<"rain_sensor_alarm", status.rain_sensor_alarm>>,
                <<"door_alert", door_alert>>,
                <<"engineering_override", engineering_override>>})

enclosure_alerts_at_or_below(status) ==
    IF status.did_fail THEN Failure
    ELSE LET door_alert == ~ ("DOOR_CLOSED" \in status.safety_status_labels
                              /\ "DOOR_LOCKED" \in status.safety_status_labels)
             engineering_override ==
                 \/ status.engineering_mode.enabled
                 \/ status.engineering_mode.plc_software_bypass
                 \/ status.engineering_mode.plc_hardware_bypass
         IN Ok({<<"o2_spec_room", status.o2_percent_spectrograph <= O2Threshold>>,
                <<"o2_util_room", status.o2_percent_utilities <= O2Threshold>>,
                <<"rain_sensor_alarm", status.rain_sensor_alarm>>,
                <<"door_alert", door_alert>>,
                <<"engineering_override", engineering_override>>})

enclosure_alerts(status) ==
    IF status.did_fail THEN Failure
    ELSE LET door_alert == ~ ("DOOR_CLOSED" \in status.safety_status_labels
                              /\ "DOOR_LOCKED" \in status.safety_status_labels)
             engineering_override ==
                 \/ status.engineering_mode.enabled
                 \/ status.engineering_mode.plc_software_bypass
                 \/ status.engineering_mode.plc_hardware_bypass
         IN Ok({<<"o2_spec_room", status.o2_percent_spectrograph < O2Threshold>>,
                <<"o2_util_room", status.o2_percent_utilities < O2Threshold>>,
                <<"rain_sensor_alarm", status.rain_sensor_alarm>>,
                <<"door_alert", door_alert>>,
                <<"engineering_override", engineering_override>>})

(* tools/alerts.py: the dicts spec_temperature_alerts can return, one      *)
(* boolean per camera and sensor; the check fails when the query raises.   *)
CameraKeys == {"b1_ccd", "b1_ln2"}

CameraAlertDicts ==
    {{<<k, f[k]>> : k \in CameraKeys} : f \in [CameraKeys -> BOOLEAN]}

(* routers/alerts.py: get_overwatcher_alerts, from the reply of            *)
(* `lvm.overwatcher status`: no status reply, a status without alerts, or  *)
(* a status with its list of alerts.                                       *)
OverwatcherReplies ==
    {[has_status |-> FALSE, alerts |-> None],
     [has_status |-> TRUE, alerts |-> None],
     [has_status |-> TRUE, alerts |-> Some({})],
     [has_status |-> TRUE, alerts |-> Some({"IDLE"})]}

get_overwatcher_alerts(reply) ==
    IF ~ reply.has_status THEN Ok(None)
    ELSE IF reply.alerts = None THEN Ok(None)
    ELSE Ok(Some([idle |-> "IDLE" \in reply.alerts[1]]))

----------------------------------------------------------------------------
(* routers/alerts.py: route_get_summary.                                   *)

Tasks == {"spec_temperature", "enclosure", "weather", "overwatcher"}

(* AlertsSummary(): every field at its default.                            *)
DefaultSummary ==
    [humidity_alert |-> None, dew_point_alert |-> None, wind_alert |-> None,
     rain |-> None, door_alert |-> None, camera_temperature_alert |-> None,
     camera_alerts |-> None, o2_alert |-> None, o2_room_alerts |-> None,
     heater_alert |-> None, heater_camera_alerts |-> None,
     overwatcher_alerts |-> None, engineering_override |-> FALSE]

(* "o2_" in key, for the keys of the enclosure dict.                       *)
IsO2Key(key) == key \in {"o2_spec_room", "o2_util_room"}

CameraAlerts(result) == IF result.ok THEN Some(result.value) ELSE None

CameraTemperatureAlertAll(result) ==
    IF result.ok THEN Some(\A item \in result.value : item[2]) ELSE None

CameraTemperatureAlert(result) ==
    IF result.ok THEN Some(AnyValue(result.value)) ELSE None

EnclosureResponse(result) == IF result.ok THEN result.value ELSE {}

O2Alerts(response) == {item \in response : IsO2Key(item[1])}

(* get() keeps None for a missing key and wraps a present value.           *)
GetOptional(response, key) ==
    IF \E item \in response : item[1] = key THEN Some(Get(response, key, FALSE)) ELSE None

OverrideSwapped(field, computed, use_fake, fake) ==
    IF use_fake
    THEN Some(fake[IF field = "wind_alert" THEN "humidity_alert"
                   ELSE IF field = "humidity_alert" THEN "wind_alert" ELSE field])
    ELSE computed

OverrideStale(field, computed, use_fake, fake) ==
    IF use_fake THEN Some(InitialFakeStates[field]) ELSE computed

(* if app.state.use_fake_states: <field> = app.state.fake_states[<key>]    *)
Override(field, computed, use_fake, fake) ==
    IF use_fake THEN Some(fake[field]) ELSE computed

SummaryArgumentsOverridingDewPoint(res, t, use_fake, fake) ==
    LET enclosure_alerts_response == EnclosureResponse(res["enclosure"])
        o2_alerts == O2Alerts(enclosure_alerts_response)
        wind_alert == MeasurementAlert(res["weather"], "wind_speed_avg",
                                       WindThreshold, Some(WindReopen), t)
        humidity_alert == MeasurementAlert(res["weather"], "relative_humidity",
                                           HumidityThreshold, Some(HumidityReopen), t)
    IN [humidity_alert |-> Override("humidity_alert", humidity_alert, use_fake, fake),
        dew_point_alert |-> Override("humidity_alert", DewPointAlert(res["weather"]),
                                     use_fake, fake),
        rain |-> Override("rain_alert",
                          GetOptional(enclosure_alerts_response, "rain_sensor_alarm"),
                          use_fake, fake),
        door_alert |-> Override("door_alert",
                                GetOptional(enclosure_alerts_response, "door_alert"),
                                use_fake, fake),
        wind_alert |-> Override("wind_alert", wind_alert, use_fake, fake),
        camera_temperature_alert |-> CameraTemperatureAlert(res["spec_temperature"]),
        camera_alerts |-> CameraAlerts(res["spec_temperature"]),
        heater_alert |-> Some(FALSE),
        heater_camera_alerts |-> Some({}),
        o2_alert |-> Some(AnyValue(o2_alerts)),
        o2_room_alerts |-> Some(o2_alerts),
        overwatcher_alerts |-> res["overwatcher"],
        engineering_override |-> Get(enclosure_alerts_response,
                                     "engineering_override", FALSE)]

(* The keyword arguments handed to AlertsSummary(...).                     *)
SummaryArguments(res, t, use_fake, fake) ==
    LET enclosure_alerts_response == EnclosureResponse(res["enclosure"])
        o2_alerts == O2Alerts(enclosure_alerts_response)
        wind_alert == MeasurementAlert(res["weather"], "wind_speed_avg",
                                       WindThreshold, Some(WindReopen), t)
        humidity_alert == MeasurementAlert(res["weather"], "relative_humidity",
                                           HumidityThreshold, Some(HumidityReopen), t)
    IN [humidity_alert |-> Override("humidity_alert", humidity_alert, use_fake, fake),
        dew_point_alert |-> DewPointAlert(res["weather"]),
        rain |-> Override("rain_alert",
                          GetOptional(enclosure_alerts_response, "rain_sensor_alarm"),
                          use_fake, fake),
        door_alert |-> Override("door_alert",
                                GetOptional(enclosure_alerts_response, "door_alert"),
                                use_fake, fake),
        wind_alert |-> Override("wind_alert", wind_alert, use_fake, fake),
        camera_temperature_alert |-> CameraTemperatureAlert(res["spec_temperature"]),
        camera_alerts |-> CameraAlerts(res["spec_temperature"]),
        heater_alert |-> Some(FALSE),
        heater_camera_alerts |-> Some({}),
        o2_alert |-> Some(AnyValue(o2_alerts)),
        o2_room_alerts |-> Some(o2_alerts),
        overwatcher_alerts |-> res["overwatcher"],
        engineering_override |-> Get(enclosure_alerts_response,
                                     "engineering_override", FALSE)]

(* Validation of AlertsSummary.overwatcher_alerts: OverwatcherAlerts | None*)
(* accepts a gathered value and rejects a gathered exception.              *)
ValidOverwatcherAlerts(entry) == entry.ok

(* Lines 88-100: the four tasks are created.                               *)
StartRequest ==
    /\ pc = "idle"
    /\ pc' = "gather"
    /\ results' = [task \in Tasks |-> Pending]
    /\ UNCHANGED <<summary, warned, silent, evalVars, overlayVars, restVars>>

(* Lines 92-100: the order in which create_task registers the checks, and  *)
(* so the order of results[].                                              *)
TaskOrder == <<"spec_temperature", "enclosure", "weather", "overwatcher">>

TaskEndsInTurn(task, entry) ==
    /\ pc = "gather"
    /\ ~ results[task].done
    /\ task \notin silent
    /\ \A i \in 1..Len(TaskOrder) :
          TaskOrder[i] = task => \A j \in 1..(i - 1) : results[TaskOrder[j]].done
    /\ results' = [results EXCEPT ![task] = entry]
    /\ UNCHANGED <<pc, summary, warned, silent, evalVars, overlayVars, restVars>>

(* A task ends when its collaborator answers (or the call raises); an      *)
(* actor that never replies leaves the command, and the task, pending.     *)
TaskEnds(task, entry) ==
    /\ pc = "gather"
    /\ ~ results[task].done
    /\ task \notin silent
    /\ results' = [results EXCEPT ![task] = entry]
    /\ UNCHANGED <<pc, summary, warned, silent, evalVars, overlayVars, restVars>>

SpecTemperatureTask ==
    \E entry \in {Failure} \cup {Ok(d) : d \in CameraAlertDicts} :
        TaskEnds("spec_temperature", entry)

(* What enclosure_alerts() ends with, over the replies of the ECP.         *)
EnclosureEntries ==
    {enclosure_alerts(status) : status \in EcpReplies \cup {EcpFailedReply}}

EnclosureTask ==
    \E entry \in EnclosureEntries : TaskEnds("enclosure", entry)

WeatherTask ==
    \E entry \in {Failure, Ok(FetchWeather(data, now))} :
        TaskEnds("weather", entry)

OverwatcherTask ==
    \E entry \in {Failure} \cup {get_overwatcher_alerts(r) : r \in OverwatcherReplies} :
        TaskEnds("overwatcher", entry)

(* Lines 104-107: the one warnings.warn of the route, for results[0].      *)
Warnings(res) == {task \in {"spec_temperature"} : ~ res[task].ok}

(* Lines 102-178: gather has every entry; the summary is composed and      *)
(* validated in one run, without a suspension point.                       *)
Compose ==
    /\ pc = "gather"
    /\ \A task \in Tasks : results[task].done
    /\ warned' = Warnings(results)
    /\ LET arguments == SummaryArguments(results, now, use_fake_states, fake_states)
       IN IF ValidOverwatcherAlerts(arguments.overwatcher_alerts)
          THEN /\ pc' = "returned"
               /\ summary' = [arguments EXCEPT
                                 !.overwatcher_alerts = arguments.overwatcher_alerts.value]
          ELSE /\ pc' = "raised"
               /\ UNCHANGED summary
    /\ UNCHANGED <<results, silent, evalVars, overlayVars, restVars>>

(* The parts of the server that a behaviour does not exercise stay as the  *)
(* process starts them: no probe started, no second call, no temperature   *)
(* query made.                                                             *)
NotStarted == [state |-> "idle", up |-> None]

IdleProbes == [host \in {"internet", "lco"} |-> NotStarted]

IdleCall == [pc |-> "idle", results |-> [task \in Tasks |-> Pending], summary |-> DefaultSummary]

Calls == {1, 2}

IdleCalls == [call \in Calls |-> IdleCall]

NoReplies == [task \in Tasks |-> Pending]

(* No response cached, no administrative request answered, no task of the *)
(* broker started, an empty fill table.                                    *)
IdleCache == cache = None

IdleAdmin == admin_reply = None

IdlePower ==
    /\ power_pc = "idle"
    /\ power_args = None
    /\ power_tasks = <<>>
    /\ errors = <<>>
    /\ power_ran = {}
    /\ power_return = None

IdleFill ==
    /\ fill_pc = "idle"
    /\ fills_db = 0
    /\ fills_db_before = None
    /\ fills_db_after = None
    /\ post_response = None
    /\ elapsed = 0
    /\ fill_return = None

IdleTasks == IdleCache /\ IdleAdmin /\ IdlePower /\ IdleFill

IdleRest ==
    /\ probes = IdleProbes
    /\ replies = NoReplies
    /\ calls = IdleCalls
    /\ temperatures = <<>>
    /\ temp_alerts_dict = None
    /\ IdleTasks

IdleRoute ==
    /\ pc = "idle"
    /\ results = [task \in Tasks |-> Pending]
    /\ summary = DefaultSummary
    /\ warned = {}

IdleEvaluator ==
    /\ cfg = [measurement |-> "wind_speed_avg", threshold |-> WindThreshold,
              reopen_value |-> Some(WindReopen)]
    /\ evaluated = FALSE
    /\ safe = None
    /\ alert = None
    /\ raised = FALSE

(* The station series the request can meet: at most one row in the         *)
(* previous and one in the current evaluation window.  The latest row can  *)
(* also be the one whose dew point is exactly 3 degrees under the          *)
(* temperature (relative humidity 85).                                     *)
RequestLevels == {<<28, 60>>, <<38, 90>>}

LatestLevels == RequestLevels \cup {<<28, 85>>}

RequestSeries ==
    LET prev(l) == WeatherRow((Epoch - 3 * TickSeconds) * MsPerSecond, l[1], l[2], Temperature)
        cur(l) == WeatherRow((Epoch - TickSeconds) * MsPerSecond, l[1], l[2], Temperature)
    IN {<<>>}
       \cup {<<prev(l)>> : l \in RequestLevels}
       \cup {<<cur(l)>> : l \in LatestLevels}
       \cup {<<prev(l), cur(m)>> : l \in RequestLevels, m \in LatestLevels}

Init ==
    /\ now = Epoch
    /\ data \in RequestSeries
    /\ IdleEvaluator
    /\ IdleRoute
    /\ silent = {}
    /\ use_fake_states \in BOOLEAN
    /\ fake_states = InitialFakeStates
    /\ adminCalls = 0
    /\ IdleRest

Next ==
    \/ StartRequest
    \/ SpecTemperatureTask
    \/ EnclosureTask
    \/ WeatherTask
    \/ OverwatcherTask
    \/ Compose
    \/ EnableFakeStates
    \/ DisableFakeStates
    \/ \E state \in FakeStateKeys \cup {"bogus"}, value \in BOOLEAN : SetFakeState(state, value)

Spec == Init /\ [][Next]_vars

----------------------------------------------------------------------------
(* The evaluator under a running clock.  The station reports at most one   *)
(* row per tick; the channel is evaluated on the frame fetched at `now`.   *)

(* Readings a row can carry: <<wind_speed_avg, relative_humidity>>, below  *)
(* the reopen value, on it, inside the band, on the threshold and above it.*)
Levels == {<<28, 60>>, <<30, 70>>, <<32, 75>>, <<35, 80>>, <<38, 85>>}

Configs ==
    {[measurement |-> "wind_speed_avg", threshold |-> WindThreshold, reopen_value |-> r] :
        r \in {Some(WindReopen), None, Some(WindThreshold), Some(0)}}
    \cup {[measurement |-> "relative_humidity", threshold |-> HumidityThreshold,
           reopen_value |-> Some(HumidityReopen)]}

InitEval ==
    /\ now = Epoch
    /\ data = <<>>
    /\ cfg \in Configs
    /\ evaluated = FALSE
    /\ safe = None
    /\ alert = None
    /\ raised = FALSE
    /\ IdleRoute
    /\ silent = {}
    /\ use_fake_states = FALSE
    /\ fake_states = InitialFakeStates
    /\ adminCalls = 0
    /\ IdleRest

Forget ==
    /\ evaluated' = FALSE
    /\ safe' = None
    /\ alert' = None
    /\ raised' = (raised \/ alert = Some(TRUE))

Tick ==
    /\ now < Epoch + MaxTick * TickSeconds
    /\ now' = now + TickSeconds
    /\ Forget
    /\ UNCHANGED <<data, cfg, routeVars, overlayVars, restVars>>

Sample(level) ==
    /\ Len(data) < MaxRows
    /\ \A i \in 1..Len(data) : data[i].ts < now * MsPerSecond
    /\ data' = Append(data, WeatherRow(now * MsPerSecond, level[1], level[2], Temperature))
    /\ Forget
    /\ UNCHANGED <<now, cfg, routeVars, overlayVars, restVars>>

Evaluate ==
    /\ ~ evaluated
    /\ LET weather_data == Ok(FetchWeather(data, now))
       IN /\ alert' = MeasurementAlert(weather_data, cfg.measurement, cfg.threshold,
                                       cfg.reopen_value, now)
          /\ safe' = IF Len(weather_data.value) > 0
                     THEN Some(is_measurament_safe(weather_data.value, cfg.measurement,
                                                   cfg.threshold, DefaultWindow,
                                                   DefaultRollingAverageWindow,
                                                   cfg.reopen_value, now))
                     ELSE None
    /\ evaluated' = TRUE
    /\ UNCHANGED <<now, data, cfg, raised, routeVars, overlayVars, restVars>>

NextEval ==
    \/ Tick
    \/ \E level \in Levels : Sample(level)
    \/ Evaluate

SpecEval == InitEval /\ [][NextEval]_vars

----------------------------------------------------------------------------
(* routers/alerts.py: route_get_connectivity.  The route awaits            *)
(* is_host_up("8.8.8.8") and then is_host_up("10.8.8.46").                 *)

Hosts == <<"internet", "lco">>

(* Line 185: the first await starts the probe of the internet host.        *)
StartConnectivity ==
    /\ probes = IdleProbes
    /\ probes' = [probes EXCEPT ![Hosts[1]].state = "running"]
    /\ UNCHANGED <<evalVars, routeVars, overlayVars, pairVars, temperatureVars, taskVars>>

(* Lines 185-186: the first probe yields its boolean and the route goes on *)
(* to the second await, which starts the probe of the LCO host.            *)
InternetProbeEnds(up) ==
    /\ probes[Hosts[1]].state = "running"
    /\ probes' = [probes EXCEPT ![Hosts[1]] = [state |-> "done", up |-> Some(up)],
                                ![Hosts[2]].state = "running"]
    /\ UNCHANGED <<evalVars, routeVars, overlayVars, pairVars, temperatureVars, taskVars>>

(* Lines 186-188: the second probe yields and the response is returned.    *)
LcoProbeEnds(up) ==
    /\ probes[Hosts[2]].state = "running"
    /\ probes' = [probes EXCEPT ![Hosts[2]] = [state |-> "done", up |-> Some(up)]]
    /\ UNCHANGED <<evalVars, routeVars, overlayVars, pairVars, temperatureVars, taskVars>>

----------------------------------------------------------------------------
(* The checks that send a command to an actor, and the time_limit each     *)
(* send_command carries, in seconds: 5 for `lvmecp status`, none for       *)
(* `lvm.overwatcher status`.                                               *)

CommandTasks == {"enclosure", "overwatcher"}

TimeLimits == [enclosure |-> Some(5), overwatcher |-> None]

(* The actor does not reply and the time limit of the command runs out:    *)
(* the command is marked failed.  Only `lvmecp status` has a limit, and    *)
(* enclosure_alerts raises on its failed status.                           *)
TimeLimitExpires(task) ==
    /\ pc = "gather"
    /\ ~ results[task].done
    /\ task \in silent
    /\ TimeLimits[task] # None
    /\ results' = [results EXCEPT ![task] = enclosure_alerts(EcpFailedReply)]
    /\ UNCHANGED <<pc, summary, warned, silent, evalVars, overlayVars, restVars>>

(* The server with actors that may never reply, serving one summary        *)
(* request and one connectivity request.                                   *)
InitLive ==
    /\ now = Epoch
    /\ data = <<WeatherRow((Epoch - TickSeconds) * MsPerSecond, 28, 60, Temperature)>>
    /\ IdleEvaluator
    /\ IdleRoute
    /\ silent \in SUBSET CommandTasks
    /\ use_fake_states = FALSE
    /\ fake_states = InitialFakeStates
    /\ adminCalls = 0
    /\ IdleRest

NextLive ==
    \/ StartRequest
    \/ SpecTemperatureTask
    \/ EnclosureTask
    \/ WeatherTask
    \/ OverwatcherTask
    \/ \E task \in CommandTasks : TimeLimitExpires(task)
    \/ Compose
    \/ StartConnectivity
    \/ \E up \in BOOLEAN : InternetProbeEnds(up)
    \/ \E up \in BOOLEAN : LcoProbeEnds(up)

(* The event loop runs every coroutine that is ready; a collaborator that  *)
(* replies does so in the end, and a time limit that is set runs out.      *)
Fairness ==
    /\ WF_vars(SpecTemperatureTask)
    /\ WF_vars(EnclosureTask)
    /\ WF_vars(WeatherTask)
    /\ WF_vars(OverwatcherTask)
    /\ WF_vars(\E task \in CommandTasks : TimeLimitExpires(task))
    /\ WF_vars(Compose)
    /\ WF_vars(\E up \in BOOLEAN : InternetProbeEnds(up))
    /\ WF_vars(\E up \in BOOLEAN : LcoProbeEnds(up))

SpecLive == InitLive /\ [][NextLive]_vars /\ Fairness

----------------------------------------------------------------------------
(* Two calls of route_get_summary in flight at once, over one time window  *)
(* and one state of the collaborators.  Each call has its own tasks,       *)
(* results[] and locals; app.state is the only object both read.           *)

(* What a check can end with: its return values and the exception.         *)
TaskEntries(task) ==
    CASE task = "spec_temperature" -> {Failure} \cup {Ok(d) : d \in CameraAlertDicts}
      [] task = "enclosure" -> EnclosureEntries
      [] task = "weather" -> {Failure, Ok(FetchWeather(data, now))}
      [] task = "overwatcher" ->
             {Failure} \cup {get_overwatcher_alerts(r) : r \in OverwatcherReplies}

(* Lines 88-100 of one call.                                               *)
CallStart(call) ==
    /\ calls[call].pc = "idle"
    /\ calls' = [calls EXCEPT ![call].pc = "gather"]
    /\ UNCHANGED <<replies, evalVars, routeVars, overlayVars, connectivityVars,
                   temperatureVars, taskVars>>

(* A task of one call ends with what its collaborator answers.             *)
CallTaskEnds(call, task) ==
    /\ calls[call].pc = "gather"
    /\ ~ calls[call].results[task].done
    /\ calls' = [calls EXCEPT ![call].results[task] = replies[task]]
    /\ UNCHANGED <<replies, evalVars, routeVars, overlayVars, connectivityVars,
                   temperatureVars, taskVars>>

CallComposeConsuming(call) ==
    /\ calls[call].pc = "gather"
    /\ \A task \in Tasks : calls[call].results[task].done
    /\ LET arguments == SummaryArguments(calls[call].results, now,
                                         use_fake_states, fake_states)
       IN calls' = [calls EXCEPT ![call] =
              IF ValidOverwatcherAlerts(arguments.overwatcher_alerts)
              THEN [pc |-> "returned", results |-> @.results,
                    summary |-> [arguments EXCEPT
                        !.overwatcher_alerts = arguments.overwatcher_alerts.value]]
              ELSE [@ EXCEPT !.pc = "raised"]]
    /\ use_fake_states' = FALSE
    /\ UNCHANGED <<replies, evalVars, routeVars, fake_states, adminCalls,
                   connectivityVars, temperatureVars, taskVars>>

(* Lines 102-178 of one call: it reads app.state and writes only locals.   *)
CallCompose(call) ==
    /\ calls[call].pc = "gather"
    /\ \A task \in Tasks : calls[call].results[task].done
    /\ LET arguments == SummaryArguments(calls[call].results, now,
                                         use_fake_states, fake_states)
       IN calls' = [calls EXCEPT ![call] =
              IF ValidOverwatcherAlerts(arguments.overwatcher_alerts)
              THEN [pc |-> "returned", results |-> @.results,
                    summary |-> [arguments EXCEPT
                        !.overwatcher_alerts = arguments.overwatcher_alerts.value]]
              ELSE [@ EXCEPT !.pc = "raised"]]
    /\ UNCHANGED <<replies, evalVars, routeVars, overlayVars, connectivityVars,
                   temperatureVars, taskVars>>

InitPair ==
    /\ now = Epoch
    /\ data = <<WeatherRow((Epoch - TickSeconds) * MsPerSecond, 38, 90, Temperature)>>
    /\ IdleEvaluator
    /\ IdleRoute
    /\ silent = {}
    /\ use_fake_states \in BOOLEAN
    /\ fake_states = InitialFakeStates
    /\ adminCalls = 0
    /\ probes = IdleProbes
    /\ \E a \in TaskEntries("spec_temperature"), b \in TaskEntries("enclosure"),
          c \in TaskEntries("weather"), d \in TaskEntries("overwatcher") :
          replies = [spec_temperature |-> a, enclosure |-> b, weather |-> c,
                     overwatcher |-> d]
    /\ calls = IdleCalls
    /\ temperatures = <<>>
    /\ temp_alerts_dict = None
    /\ IdleTasks

NextPair ==
    \/ \E call \in Calls : CallStart(call)
    \/ \E call \in Calls, task \in Tasks : CallTaskEnds(call, task)
    \/ \E call \in Calls : CallCompose(call)

SpecPair == InitPair /\ [][NextPair]_vars

----------------------------------------------------------------------------
(* tools/alerts.py: spec_temperature_alerts, over the frame returned by    *)
(* tools/spectrograph.py: spectrograph_temperatures_history.               *)
(* Temperatures are whole degrees Celsius; a sample's age is in minutes    *)
(* before the query.  A mean is kept exactly as [sum, n].                  *)

CcdThreshold == -85
Ln2Threshold == -160
StartMinutes == 5

(* The cameras and sensors of the model: one camera with its two sensors.  *)
Cameras == {"b1"}
Sensors == {"ccd", "ln2"}

(* f"{camera}_{sensor}"                                                    *)
KeyOf(camera, sensor) == camera \o "_" \o sensor

(* range(start: -5m, stop: now()): the samples of the last `start` minutes,*)
(* one row per sample with its camera, sensor and temperature; no row for  *)
(* a camera and sensor without samples in the range.                       *)
spectrograph_temperatures_history(series, start) ==
    SelectSeq(series, LAMBDA sample : sample.age <= start)

(* group_by(["camera", "sensor"]): the groups are the pairs that occur in  *)
(* the frame.                                                              *)
GroupsOf(frame) == {<<frame[i].camera, frame[i].sensor>> : i \in 1..Len(frame)}

GroupRows(frame, group) ==
    {i \in 1..Len(frame) : frame[i].camera = group[1] /\ frame[i].sensor = group[2]}

RECURSIVE SumTemperature(_, _)
SumTemperature(frame, rows) ==
    IF rows = {} THEN 0
    ELSE LET i == CHOOSE r \in rows : TRUE
         IN frame[i].temperature + SumTemperature(frame, rows \ {i})

(* mean_temp > threshold                                                   *)
MeanAbove(sum, n, threshold) == sum > threshold * n

(* Lines 47-63.  The dict is the set of its items, so the sort of its keys *)
(* (line 61) leaves it as it is.                                           *)
spec_temperature_alerts(series, start, ccd_threshold, ln2_threshold) ==
    LET frame == spectrograph_temperatures_history(series, start)
        alerted(group) ==
            LET rows == GroupRows(frame, group)
                threshold == IF group[2] = "ccd" THEN ccd_threshold ELSE ln2_threshold
            IN IF Cardinality(rows) = 0 THEN FALSE
               ELSE MeanAbove(SumTemperature(frame, rows), Cardinality(rows), threshold)
    IN {<<KeyOf(group[1], group[2]), alerted(group)>> : group \in GroupsOf(frame)}

(* The samples a history can hold: CCD and LN2 temperatures around the     *)
(* thresholds, inside and outside the queried range.                       *)
CcdLevels == {-90, -85, -80}
Ln2Levels == {-180, -175, -170, -160, -150}
Ages == {1, 10}

Samples ==
    {[camera |-> c, sensor |-> "ccd", temperature |-> t, age |-> a] :
        c \in Cameras, t \in CcdLevels, a \in Ages}
    \cup {[camera |-> c, sensor |-> "ln2", temperature |-> t, age |-> a] :
            c \in Cameras, t \in Ln2Levels, a \in Ages}

Histories == UNION {[1..n -> Samples] : n \in 0..MaxSamples}

InitTemperature ==
    /\ now = Epoch
    /\ data = <<>>
    /\ IdleEvaluator
    /\ IdleRoute
    /\ silent = {}
    /\ use_fake_states = FALSE
    /\ fake_states = InitialFakeStates
    /\ adminCalls = 0
    /\ probes = IdleProbes
    /\ replies = NoReplies
    /\ calls = IdleCalls
    /\ temperatures \in Histories
    /\ temp_alerts_dict = None
    /\ IdleTasks

(* One call of spec_temperature_alerts() with its default arguments.       *)
SpecTemperatureAlerts ==
    /\ temp_alerts_dict = None
    /\ temp_alerts_dict' = Some(spec_temperature_alerts(temperatures, StartMinutes,
                                                        CcdThreshold, Ln2Threshold))
    /\ UNCHANGED <<temperatures, evalVars, routeVars, overlayVars, connectivityVars,
                   pairVars, taskVars>>

NextTemperature == SpecTemperatureAlerts

SpecTemperature == InitTemperature /\ [][NextTemperature]_vars

----------------------------------------------------------------------------
(* routers/alerts.py line 84, cache.py line 35: route_get_summary behind   *)
(* @lvmapi_cache(expire=10).  A request first looks its key up in the      *)
(* cache backend; a stored response that has not expired is sent as it is, *)
(* without running the route; otherwise the route runs and what it returns *)
(* is stored for `expire` seconds and sent.  A route that raises stores    *)
(* nothing.  Every GET of one path has the same key                        *)
(* (valis_cache_key_builder: namespace, method, path, hash of parameters). *)

CacheExpire == 10
CacheTickSeconds == 5

CacheHit == cache # None /\ now < cache[1].expires

(* The decorator's lookup, and on a miss lines 88-100 of the route.        *)
CachedCallStart(call) ==
    IF CacheHit
    THEN /\ calls[call].pc = "idle"
         /\ calls' = [calls EXCEPT ![call].pc = "sent", ![call].summary = cache[1].value]
         /\ UNCHANGED <<replies, evalVars, routeVars, overlayVars, connectivityVars,
                        temperatureVars, taskVars>>
    ELSE CallStart(call)

(* The decorator after the route has returned: backend.set, then send.     *)
CacheStore(call) ==
    /\ calls[call].pc = "returned"
    /\ cache' = Some([value |-> calls[call].summary, expires |-> now + CacheExpire])
    /\ calls' = [calls EXCEPT ![call].pc = "sent"]
    /\ UNCHANGED <<replies, evalVars, routeVars, overlayVars, connectivityVars,
                   temperatureVars, adminVars, powerVars, fillVars>>

CacheTick ==
    /\ now < Epoch + MaxCacheTick * CacheTickSeconds
    /\ now' = now + CacheTickSeconds
    /\ UNCHANGED <<data, cfg, evaluated, safe, alert, raised, routeVars, overlayVars,
                   restVars>>

InitCache ==
    /\ now = Epoch
    /\ data = <<WeatherRow((Epoch - TickSeconds) * MsPerSecond, 38, 90, Temperature)>>
    /\ IdleEvaluator
    /\ IdleRoute
    /\ silent = {}
    /\ use_fake_states \in BOOLEAN
    /\ fake_states = InitialFakeStates
    /\ adminCalls = 0
    /\ probes = IdleProbes
    /\ replies = [spec_temperature |-> Ok({<<k, FALSE>> : k \in CameraKeys}),
                  enclosure |-> enclosure_alerts(NominalReply),
                  weather |-> Ok(FetchWeather(data, now)),
                  overwatcher |-> get_overwatcher_alerts([has_status |-> TRUE,
                                                          alerts |-> Some({})])]
    /\ calls = IdleCalls
    /\ temperatures = <<>>
    /\ temp_alerts_dict = None
    /\ IdleTasks

NextCache ==
    \/ \E call \in Calls : CachedCallStart(call)
    \/ \E call \in Calls, task \in Tasks : CallTaskEnds(call, task)
    \/ \E call \in Calls : CallCompose(call)
    \/ \E call \in Calls : CacheStore(call)
    \/ CacheTick
    \/ EnableFakeStates
    \/ DisableFakeStates
    \/ \E state \in FakeStateKeys, value \in BOOLEAN : SetFakeState(state, value)

SpecCache == InitCache /\ [][NextCache]_vars

----------------------------------------------------------------------------
(* app.py: the administrative endpoints as their client sees them, with    *)
(* the HTTP response each request gets.                                    *)

StateNames == FakeStateKeys \cup {"bogus", "wind"}

(* The request and its response: status code, and the fields of the body.  *)
AdminReply(endpoint, state, status_code, use_fake, value) ==
    [endpoint |-> endpoint, state |-> state, status_code |-> status_code,
     use_fake_states |-> use_fake, value |-> value]

route_get_enable_states ==
    /\ adminCalls < MaxAdminCalls
    /\ adminCalls' = adminCalls + 1
    /\ use_fake_states' = TRUE
    /\ admin_reply' = Some(AdminReply("enable", None, 200, Some(use_fake_states'), None))
    /\ UNCHANGED <<fake_states, evalVars, routeVars, connectivityVars, pairVars,
                   temperatureVars, cacheVars, powerVars, fillVars>>

route_get_disable_states ==
    /\ adminCalls < MaxAdminCalls
    /\ adminCalls' = adminCalls + 1
    /\ use_fake_states' = FALSE
    /\ admin_reply' = Some(AdminReply("disable", None, 200, Some(use_fake_states'), None))
    /\ UNCHANGED <<fake_states, evalVars, routeVars, connectivityVars, pairVars,
                   temperatureVars, cacheVars, powerVars, fillVars>>

route_get_set_fake_state_unchecked(state, value) ==
    /\ adminCalls < MaxAdminCalls
    /\ adminCalls' = adminCalls + 1
    /\ fake_states' = [k \in DOMAIN fake_states \cup {state} |->
                          IF k = state THEN value ELSE fake_states[k]]
    /\ admin_reply' = Some(AdminReply("set", Some(state), 200, None,
                                       Some(fake_states'[state])))
    /\ UNCHANGED <<use_fake_states, evalVars, routeVars, connectivityVars, pairVars,
                   temperatureVars, cacheVars, powerVars, fillVars>>

(* Lines 159-160 raise HTTPException(400) before anything is written.      *)
route_get_set_fake_state(state, value) ==
    /\ adminCalls < MaxAdminCalls
    /\ adminCalls' = adminCalls + 1
    /\ IF state \notin DOMAIN fake_states
       THEN /\ admin_reply' = Some(AdminReply("set", Some(state), 400, None, None))
            /\ UNCHANGED fake_states
       ELSE /\ fake_states' = [fake_states EXCEPT ![state] = value]
            /\ admin_reply' = Some(AdminReply("set", Some(state), 200, None,
                                              Some(fake_states'[state])))
    /\ UNCHANGED <<use_fake_states, evalVars, routeVars, connectivityVars, pairVars,
                   temperatureVars, cacheVars, powerVars, fillVars>>

route_get_get_fake_state(state) ==
    /\ adminCalls < MaxAdminCalls
    /\ adminCalls' = adminCalls + 1
    /\ admin_reply' =
          IF state \notin DOMAIN fake_states
          THEN Some(AdminReply("get", Some(state), 400, None, None))
          ELSE Some(AdminReply("get", Some(state), 200, Some(use_fake_states),
                               Some(fake_states[state])))
    /\ UNCHANGED <<use_fake_states, fake_states, evalVars, routeVars, connectivityVars,
                   pairVars, temperatureVars, cacheVars, powerVars, fillVars>>

InitAdmin ==
    /\ now = Epoch
    /\ data = <<>>
    /\ IdleEvaluator
    /\ IdleRoute
    /\ silent = {}
    /\ use_fake_states \in BOOLEAN
    /\ fake_states = InitialFakeStates
    /\ adminCalls = 0
    /\ IdleRest

NextAdmin ==
    \/ route_get_enable_states
    \/ route_get_disable_states
    \/ \E state \in StateNames, value \in BOOLEAN : route_get_set_fake_state(state, value)
    \/ \E state \in StateNames : route_get_get_fake_state(state)

SpecAdmin == InitAdmin /\ [][NextAdmin]_vars

----------------------------------------------------------------------------
(* tasks.py: power_cycle_ag_cameras(cameras, reconnect).                   *)

VALID_CAMERAS ==
    <<"sci-east", "sci-west", "skye-east", "skye-west", "skyw-east", "skyw-west",
      "spec-east">>

ValidCameras == {VALID_CAMERAS[i] : i \in 1..Len(VALID_CAMERAS)}

(* camera.split("-")[0]                                                    *)
TelescopeOf(camera) ==
    CASE camera \in {"sci-east", "sci-west"} -> "sci"
      [] camera \in {"skye-east", "skye-west"} -> "skye"
      [] camera \in {"skyw-east", "skyw-west"} -> "skyw"
      [] camera = "spec-east" -> "spec"

(* The `cameras` argument: None, or a sequence of names, which can hold    *)
(* empty strings and names that are not cameras.                           *)
CameraArguments ==
    {None, Some(<<>>), Some(<<"sci-east">>), Some(<<"sci-east", "sci-west">>),
     Some(<<"", "skye-west">>), Some(<<"skyw-west", "spec-east">>),
     Some(<<"sci-east", "bogus">>)}

(* Lines 143-144.                                                          *)
CamerasOrAll(cameras) == IF cameras = None THEN VALID_CAMERAS ELSE cameras[1]

(* Lines 154-159: a name that is neither empty nor valid raises.           *)
HasInvalidCamera(cameras) ==
    \E i \in 1..Len(cameras) : cameras[i] # "" /\ cameras[i] \notin ValidCameras

(* Lines 154-162.                                                          *)
TelescopesOf(cameras) ==
    {TelescopeOf(cameras[i]) : i \in {j \in 1..Len(cameras) : cameras[j] # ""}}

(* Lines 187: the dict the task returns.                                   *)
PowerCycleReturn(errs) == Some([result |-> Len(errs) = 0, errors |-> errs])

(* Lines 143-167: the arguments are checked and one task per telescope is  *)
(* created; an invalid name raises ValueError before any task exists.      *)
PowerCycleCall(cameras, reconnect) ==
    /\ power_pc = "idle"
    /\ power_args' = Some([cameras |-> cameras, reconnect |-> reconnect])
    /\ IF HasInvalidCamera(CamerasOrAll(cameras))
       THEN /\ power_pc' = "invalid_camera"
            /\ UNCHANGED power_tasks
       ELSE /\ power_pc' = "gather"
            /\ power_tasks' = [telescope \in TelescopesOf(CamerasOrAll(cameras)) |-> Pending]
    /\ UNCHANGED <<errors, power_ran, power_return, evalVars, routeVars, overlayVars,
                   connectivityVars, pairVars, temperatureVars, cacheVars, adminVars,
                   fillVars>>

(* power_cycle_ag_camera(camera) of one telescope ends: it returns, or it  *)
(* raises.                                                                 *)
PowerCycleEnds(telescope, entry) ==
    /\ power_pc = "gather"
    /\ telescope \in DOMAIN power_tasks
    /\ ~ power_tasks[telescope].done
    /\ power_tasks' = [power_tasks EXCEPT ![telescope] = entry]
    /\ UNCHANGED <<power_pc, power_args, errors, power_ran, power_return, evalVars,
                   routeVars, overlayVars, connectivityVars, pairVars, temperatureVars,
                   cacheVars, adminVars, fillVars>>

(* Lines 169-173: gather(return_exceptions=True) returns when every task   *)
(* is done and its list is dropped; the loop then asks each task for       *)
(* task.result(), which returns the task's value and re-raises the         *)
(* exception of a task that ended with one.  The value of a task that      *)
(* ended normally is not an exception, so nothing is appended to errors.   *)
CollectErrors ==
    /\ power_pc = "gather"
    /\ \A telescope \in DOMAIN power_tasks : power_tasks[telescope].done
    /\ power_pc' = IF \E telescope \in DOMAIN power_tasks : ~ power_tasks[telescope].ok
                   THEN "raised"
                   ELSE "sleep"
    /\ UNCHANGED <<power_args, power_tasks, errors, power_ran, power_return, evalVars,
                   routeVars, overlayVars, connectivityVars, pairVars, temperatureVars,
                   cacheVars, adminVars, fillVars>>

(* Lines 176-178 and 187: asyncio.sleep(30) ends.                          *)
PowerSleepEnds ==
    /\ power_pc = "sleep"
    /\ power_ran' = power_ran \cup {"sleep"}
    /\ IF power_args[1].reconnect
       THEN power_pc' = "reset" /\ UNCHANGED power_return
       ELSE power_pc' = "returned" /\ power_return' = PowerCycleReturn(errors)
    /\ UNCHANGED <<power_args, power_tasks, errors, evalVars, routeVars, overlayVars,
                   connectivityVars, pairVars, temperatureVars, cacheVars, adminVars,
                   fillVars>>

(* Lines 180-181: the overwatcher is told to reset.                        *)
ResetOverwatcher ==
    /\ power_pc = "reset"
    /\ power_ran' = power_ran \cup {"reset"}
    /\ power_pc' = "reconnect"
    /\ UNCHANGED <<power_args, power_tasks, errors, power_return, evalVars, routeVars,
                   overlayVars, connectivityVars, pairVars, temperatureVars, cacheVars,
                   adminVars, fillVars>>

(* Lines 184-187: gort.ags.reconnect(), and the return.                    *)
ReconnectCameras ==
    /\ power_pc = "reconnect"
    /\ power_ran' = power_ran \cup {"reconnect"}
    /\ power_pc' = "returned"
    /\ power_return' = PowerCycleReturn(errors)
    /\ UNCHANGED <<power_args, power_tasks, errors, evalVars, routeVars, overlayVars,
                   connectivityVars, pairVars, temperatureVars, cacheVars, adminVars,
                   fillVars>>

InitPower ==
    /\ now = Epoch
    /\ data = <<>>
    /\ IdleEvaluator
    /\ IdleRoute
    /\ silent = {}
    /\ use_fake_states = FALSE
    /\ fake_states = InitialFakeStates
    /\ adminCalls = 0
    /\ IdleRest

NextPower ==
    \/ \E cameras \in CameraArguments, reconnect \in BOOLEAN :
          PowerCycleCall(cameras, reconnect)
    \/ \E telescope \in {"sci", "skye", "skyw", "spec"}, entry \in {Ok(None), Failure} :
          PowerCycleEnds(telescope, entry)
    \/ CollectErrors
    \/ PowerSleepEnds
    \/ ResetOverwatcher
    \/ ReconnectCameras

SpecPower == InitPower /\ [][NextPower]_vars

----------------------------------------------------------------------------
(* tasks.py: ln2_manual_fill(password, clear_lock).  The fill table is     *)
(* kept as its number of rows, with primary keys 1..fills_db; the cryo     *)
(* server adds a row when a fill starts.                                   *)

PollSeconds == 5
FillTimeout == 120

notFillVars == <<evalVars, routeVars, overlayVars, connectivityVars, pairVars,
                 temperatureVars, cacheVars, adminVars, powerVars>>

(* What the POST to /manual-fill ends with: an httpx.HTTPError (transport  *)
(* error, timeout, or raise_for_status on a 4xx/5xx), a JSON body whose    *)
(* `result` is false or missing, or a JSON body with result true.          *)
PostOutcomes == {"http_error", "rejected", "accepted"}

FillReturn(result, pk, error) == Some([result |-> result, pk |-> pk, error |-> error])

TimeoutError == Some("Timeout waiting for fill to start")

FillSeen(after, before) == after >= before

(* Line 234: len(fills_db_after) > len(fills_db_before)                    *)
FillStarted(after, before) == after > before

(* Line 207: the number of rows before the request.                        *)
FillCall ==
    /\ fill_pc = "idle"
    /\ fills_db_before' = Some(fills_db)
    /\ fill_pc' = "post"
    /\ UNCHANGED <<fills_db, fills_db_after, post_response, elapsed, fill_return,
                   notFillVars>>

(* Lines 213-231.                                                          *)
PostEnds(outcome) ==
    /\ fill_pc = "post"
    /\ post_response' = Some(outcome)
    /\ CASE outcome = "http_error" ->
               /\ fill_pc' = "returned"
               /\ fill_return' = FillReturn(FALSE, None, Some("HTTPError"))
               /\ UNCHANGED elapsed
         [] outcome = "rejected" ->
               /\ fill_pc' = "returned"
               /\ fill_return' = FillReturn(FALSE, None, Some("Unknown error"))
               /\ UNCHANGED elapsed
         [] outcome = "accepted" ->
               /\ fill_pc' = "poll"
               /\ elapsed' = 0
               /\ UNCHANGED fill_return
    /\ UNCHANGED <<fills_db, fills_db_before, fills_db_after, notFillVars>>

(* Lines 233-235: one poll of the table.                                   *)
PollFillList ==
    /\ fill_pc = "poll"
    /\ fills_db_after' = Some(fills_db)
    /\ fill_pc' = IF FillStarted(fills_db, fills_db_before[1]) THEN "settle" ELSE "sleep"
    /\ UNCHANGED <<fills_db, fills_db_before, post_response, elapsed, fill_return,
                   notFillVars>>

(* Lines 237-245: asyncio.sleep(5) ends.                                   *)
PollSleepEnds ==
    /\ fill_pc = "sleep"
    /\ elapsed' = elapsed + PollSeconds
    /\ IF elapsed' > FillTimeout
       THEN /\ fill_pc' = "returned"
            /\ fill_return' = FillReturn(FALSE, None, TimeoutError)
       ELSE /\ fill_pc' = "poll"
            /\ UNCHANGED fill_return
    /\ UNCHANGED <<fills_db, fills_db_before, fills_db_after, post_response, notFillVars>>

(* Lines 247-252: asyncio.sleep(3), the table is read again and its        *)
(* largest key is returned.                                                *)
FillSettles ==
    /\ fill_pc = "settle"
    /\ fill_pc' = "returned"
    /\ fill_return' = FillReturn(TRUE, Some(fills_db), None)
    /\ UNCHANGED <<fills_db, fills_db_before, fills_db_after, post_response, elapsed,
                   notFillVars>>

(* The cryo server records the start of a fill, this one or another.       *)
FillRecorded ==
    /\ fills_db < 1 + MaxFills
    /\ fills_db' = fills_db + 1
    /\ UNCHANGED <<fill_pc, fills_db_before, fills_db_after, post_response, elapsed,
                   fill_return, notFillVars>>

InitFill ==
    /\ now = Epoch
    /\ data = <<>>
    /\ IdleEvaluator
    /\ IdleRoute
    /\ silent = {}
    /\ use_fake_states = FALSE
    /\ fake_states = InitialFakeStates
    /\ adminCalls = 0
    /\ probes = IdleProbes
    /\ replies = NoReplies
    /\ calls = IdleCalls
    /\ temperatures = <<>>
    /\ temp_alerts_dict = None
    /\ IdleCache
    /\ IdleAdmin
    /\ IdlePower
    /\ fill_pc = "idle"
    /\ fills_db \in 0..1
    /\ fills_db_before = None
    /\ fills_db_after = None
    /\ post_response = None
    /\ elapsed = 0
    /\ fill_return = None

NextFill ==
    \/ FillCall
    \/ \E outcome \in PostOutcomes : PostEnds(outcome)
    \/ PollFillList
    \/ PollSleepEnds
    \/ FillSettles
    \/ FillRecorded

(* The event loop runs a coroutine that can go on: the table query         *)
(* answers, the POST ends (httpx gives up after its timeout), a sleep      *)
(* ends.  Nothing obliges the cryo server to record a fill.                *)
FairnessFill ==
    /\ WF_vars(FillCall)
    /\ WF_vars(\E outcome \in PostOutcomes : PostEnds(outcome))
    /\ WF_vars(PollFillList)
    /\ WF_vars(PollSleepEnds)
    /\ WF_vars(FillSettles)

SpecFill == InitFill /\ [][NextFill]_vars /\ FairnessFill

----------------------------------------------------------------------------
(* Vocabulary of the evaluator's contract: the frame of the evaluation,    *)
(* its rolling means, and the evaluation windows as intervals of time.     *)

Frame == FetchWeather(data, now)
Average == RollingMean(Frame, cfg.measurement, DefaultRollingAverageWindow)
WindowMs == DefaultWindow * SecondsPerMinute * MsPerSecond

(* [now - window, now]                                                     *)
CurrentWindow ==
    {i \in 1..Len(Frame) : /\ Frame[i].ts >= now * MsPerSecond - WindowMs
                           /\ Frame[i].ts <= now * MsPerSecond}

(* [now - 2 * window, now - window]                                        *)
PreviousWindow ==
    {i \in 1..Len(Frame) : /\ Frame[i].ts >= now * MsPerSecond - 2 * WindowMs
                           /\ Frame[i].ts <= now * MsPerSecond - WindowMs}

(* The reopen level of the configuration: the one given, else the threshold*)
ConfiguredReopen ==
    IF cfg.reopen_value = None THEN cfg.threshold ELSE cfg.reopen_value[1]

Breach(i) == AverageAtLeast(Average[i], cfg.threshold)
BelowReopen(i) == AverageBelow(Average[i], ConfiguredReopen)
InBand(i) == ~ Breach(i) /\ ~ BelowReopen(i)

Unsafe == safe = Some(FALSE) /\ alert = Some(TRUE)
Safe == safe = Some(TRUE) /\ alert = Some(FALSE)

(* C1: a rolling mean >= threshold anywhere in the current evaluation      *)
(* window makes the verdict Unsafe: is_measurament_safe returns False and  *)
(* the alert derived from it is true, wherever the value stands in the     *)
(* window and whatever the latest value is.                                *)
C1_BreachInWindowIsUnsafe ==
    (evaluated /\ \E i \in CurrentWindow : Breach(i)) => Unsafe

(* C1 witness: the breach sits exactly on the threshold, is not the latest *)
(* value of the window, and the latest value is below the threshold.       *)
C1_Witness ==
    /\ evaluated
    /\ Unsafe
    /\ \E i \in CurrentWindow :
          /\ Average[i].sum = cfg.threshold * Average[i].n
          /\ i < Len(Frame)
    /\ Len(Frame) \in CurrentWindow
    /\ ~ Breach(Len(Frame))

C3_BelowReopenIsSafe ==
    ( /\ evaluated
      /\ CurrentWindow # {}
      /\ \A i \in CurrentWindow : ~ Breach(i) /\ BelowReopen(i) ) => Safe

(* C4: with no rolling mean >= threshold in the current window and at      *)
(* least one inside the band [reopen_value, threshold), the verdict is     *)
(* Unsafe if the previous window holds a rolling mean >= threshold and     *)
(* Safe if it holds none (an empty previous window included).              *)
C4_BandFollowsPreviousWindow ==
    ( /\ evaluated
      /\ \A i \in CurrentWindow : ~ Breach(i)
      /\ \E i \in CurrentWindow : InBand(i) )
    => IF \E j \in PreviousWindow : Breach(j) THEN Unsafe ELSE Safe

(* The station's whole series, for statements about its history.           *)
SeriesAverage == RollingMean(data, cfg.measurement, DefaultRollingAverageWindow)

(* Some rolling mean of the series reached the threshold and every later   *)
(* one stayed inside the band, never below the reopen value.               *)
HeldInBand ==
    \E b \in 1..Len(data) :
        /\ AverageAtLeast(SeriesAverage[b], cfg.threshold)
        /\ b < Len(data)
        /\ \A j \in (b + 1)..Len(data) :
              /\ ~ AverageAtLeast(SeriesAverage[j], cfg.threshold)
              /\ ~ AverageBelow(SeriesAverage[j], ConfiguredReopen)

(* C5: hysteresis hold.  After a breach has raised the alert, a series     *)
(* that only falls into the band and never below the reopen value is       *)
(* Unsafe at every later evaluation that has readings in its window.       *)
C5_BandHoldsLatch ==
    (evaluated /\ raised /\ HeldInBand /\ CurrentWindow # {}) => Unsafe

(* C6: no-data safety.  When no row of the frame lies in the current       *)
(* evaluation window (no rows at all, or only older rows), the verdict is  *)
(* Unknown: the alert is None, neither true nor false.                     *)
C6_NoDataIsUnknown ==
    (evaluated /\ CurrentWindow = {}) => alert = None

(* C7: route_get_summary raises no exception, whichever of its four       *)
(* checks fail.                                                            *)
C7_SummaryNeverRaises == pc # "raised"

(* Vocabulary of the aggregator's contract: the step on which gather has   *)
(* every entry and the summary is returned, and what the weather check     *)
(* computed from its frame.                                                *)
Returns == pc = "gather" /\ pc' = "returned"

ComputedWindAlert ==
    MeasurementAlert(results["weather"], "wind_speed_avg", WindThreshold,
                     Some(WindReopen), now)

ComputedHumidityAlert ==
    MeasurementAlert(results["weather"], "relative_humidity", HumidityThreshold,
                     Some(HumidityReopen), now)

(* C8: partial failure isolation.  With fake states disabled, when the     *)
(* enclosure check failed and the weather check succeeded, the returned    *)
(* summary carries the wind and humidity alerts computed from the weather  *)
(* data and has o2_alert and door_alert equal to None.                     *)
C8_EnclosureFailureIsolated ==
    [][ (Returns /\ ~ use_fake_states
           /\ ~ results["enclosure"].ok /\ results["weather"].ok)
        => /\ summary'.wind_alert = ComputedWindAlert
           /\ summary'.humidity_alert = ComputedHumidityAlert
           /\ summary'.o2_alert = None
           /\ summary'.door_alert = None ]_vars

(* C9: with fake states disabled, a failed check is not reported as safe   *)
(* in the weather and camera fields: a failed or empty weather fetch       *)
(* leaves wind_alert, humidity_alert and dew_point_alert None; a failed    *)
(* temperature check leaves camera_alerts and camera_temperature_alert     *)
(* None; a successful one makes camera_temperature_alert true exactly when *)
(* some camera alert is true.                                              *)
C9_FailedCheckIsNotSafe ==
    [][ (Returns /\ ~ use_fake_states)
        => /\ (~ results["weather"].ok \/ Len(results["weather"].value) = 0)
                => /\ summary'.wind_alert = None
                   /\ summary'.humidity_alert = None
                   /\ summary'.dew_point_alert = None
           /\ ~ results["spec_temperature"].ok
                => /\ summary'.camera_alerts = None
                   /\ summary'.camera_temperature_alert = None
           /\ results["spec_temperature"].ok
                => summary'.camera_temperature_alert
                     = Some(\E item \in results["spec_temperature"].value : item[2] = TRUE)
      ]_vars

(* C9 witness: a summary returned with fake states never enabled, after    *)
(* the weather fetch failed, or after the temperature check succeeded with *)
(* one camera alerted and one not.                                         *)
C9_Witness ==
    /\ pc = "returned"
    /\ ~ use_fake_states
    /\ adminCalls = 0
    /\ \/ /\ ~ results["weather"].ok
          /\ ~ results["spec_temperature"].ok
          /\ summary.wind_alert = None
          /\ summary.camera_temperature_alert = None
       \/ /\ results["spec_temperature"].ok
          /\ \E a, b \in results["spec_temperature"].value : a[2] /\ ~ b[2]
          /\ summary.camera_temperature_alert = Some(TRUE)

(* C10: override precedence.  When the use-fake-states flag is set as the  *)
(* summary is composed, wind_alert, humidity_alert, rain and door_alert of *)
(* the summary are the overlay's wind_alert, humidity_alert, rain_alert    *)
(* and door_alert, whatever the checks computed; nothing changes the       *)
(* returned summary afterwards.                                            *)
C10_OverlayOverrides ==
    [][ /\ (Returns /\ use_fake_states)
           => /\ summary'.wind_alert = Some(fake_states["wind_alert"])
              /\ summary'.humidity_alert = Some(fake_states["humidity_alert"])
              /\ summary'.rain = Some(fake_states["rain_alert"])
              /\ summary'.door_alert = Some(fake_states["door_alert"])
        /\ pc = "returned" => summary' = summary ]_vars

(* C10 witness: the overlay says wind_alert and no humidity_alert while    *)
(* the weather check computed no wind alert.                               *)
C10_Witness ==
    /\ pc = "returned"
    /\ use_fake_states
    /\ fake_states["wind_alert"]
    /\ ~ fake_states["humidity_alert"]
    /\ ComputedWindAlert = Some(FALSE)
    /\ summary.wind_alert = Some(TRUE)
    /\ summary.humidity_alert = Some(FALSE)

----------------------------------------------------------------------------
(* C11: the four checks of an aggregation are created together, before the *)
(* route awaits: while the route is gathering, every check that has not    *)
(* ended can end whatever the state of the other three, and the route      *)
(* leaves the gather (returning or raising) only when all four have an     *)
(* entry, a result or a captured failure.                                  *)
C11_JoinBarrier ==
    /\ pc = "gather" =>
          \A task \in Tasks : ~ results[task].done => ENABLED TaskEnds(task, Failure)
    /\ pc \in {"returned", "raised"} => \A task \in Tasks : results[task].done

(* The check created last has ended while the three created before it are  *)
(* still pending.                                                          *)
C11_Witness ==
    /\ pc = "gather"
    /\ results["overwatcher"].done
    /\ \A task \in Tasks \ {"overwatcher"} : ~ results[task].done

----------------------------------------------------------------------------
(* C12: every check has its own timeout, so an aggregation that has        *)
(* started its checks always comes to an end, even when an actor never     *)
(* replies: it does not wait forever in the gather.                        *)
C12_AggregationEnds == (pc = "gather") ~> (pc \in {"returned", "raised"})

(* C13: the two connectivity probes run together: while the probe of the   *)
(* internet host is running, the probe of the LCO host has been started.   *)
C13_ProbesRunTogether ==
    probes["internet"].state = "running" => probes["lco"].state # "idle"

----------------------------------------------------------------------------
AtReopen(i) == Average[i].sum = ConfiguredReopen * Average[i].n

(* C14: the reopen value itself is on the safe side.  A non-empty current  *)
(* window whose rolling means are all below the threshold and at most the  *)
(* reopen value, one of them exactly the reopen value, is Safe, also when  *)
(* the previous window holds a breach.                                     *)
C14_ReopenBoundaryIsSafe ==
    ( /\ evaluated
      /\ CurrentWindow # {}
      /\ \A i \in CurrentWindow : ~ Breach(i) /\ (BelowReopen(i) \/ AtReopen(i))
      /\ \E i \in CurrentWindow : AtReopen(i) ) => Safe

(* C15: with the reopen value equal to the threshold, given or defaulted,  *)
(* there is no hysteresis: an evaluation with a non-empty current window   *)
(* is Unsafe exactly when a rolling mean of the current window is at or    *)
(* above the threshold, whatever the previous window holds.                *)
C15_NoBandIsSimpleThreshold ==
    (evaluated /\ ConfiguredReopen = cfg.threshold /\ CurrentWindow # {})
    => IF \E i \in CurrentWindow : Breach(i) THEN Unsafe ELSE Safe

----------------------------------------------------------------------------
CallEnded(call) == calls[call].pc \in {"returned", "raised"}

----------------------------------------------------------------------------
ComputedRain == GetOptional(EnclosureResponse(results["enclosure"]), "rain_sensor_alarm")
ComputedDoorAlert == GetOptional(EnclosureResponse(results["enclosure"]), "door_alert")

(* C17: the override layer of an aggregation works on one state of the     *)
(* overlay.  The step that composes the summary leaves the overlay as it   *)
(* is (no administrative write falls between its reads), and the four      *)
(* fields are either all the values the overlay holds in that state, when  *)
(* its flag is set in that state, or all the computed values, when it is   *)
(* not.                                                                    *)
C17_OverlaySnapshot ==
    [][ Returns =>
          /\ UNCHANGED <<use_fake_states, fake_states, adminCalls>>
          /\ IF use_fake_states
             THEN /\ summary'.wind_alert = Some(fake_states["wind_alert"])
                  /\ summary'.humidity_alert = Some(fake_states["humidity_alert"])
                  /\ summary'.rain = Some(fake_states["rain_alert"])
                  /\ summary'.door_alert = Some(fake_states["door_alert"])
             ELSE /\ summary'.wind_alert = ComputedWindAlert
                  /\ summary'.humidity_alert = ComputedHumidityAlert
                  /\ summary'.rain = ComputedRain
                  /\ summary'.door_alert = ComputedDoorAlert ]_vars

(* C17 witness: administrative calls were made, the overlay differs from   *)
(* the one the process started with in a value that the enclosure check    *)
(* computed otherwise, and the summary carries the overlay's values.       *)
C17_Witness ==
    /\ pc = "returned"
    /\ adminCalls > 0
    /\ use_fake_states
    /\ fake_states["door_alert"]
    /\ ~ fake_states["rain_alert"]
    /\ ComputedDoorAlert = Some(FALSE)
    /\ ComputedRain = Some(TRUE)
    /\ summary.door_alert = Some(TRUE)
    /\ summary.rain = Some(FALSE)

(* C18: every check that fails in an aggregation has a warning issued for  *)
(* it in that aggregation.                                                 *)
C18_FailureIsWarned ==
    pc \in {"returned", "raised"} =>
        \A task \in Tasks : ~ results[task].ok => task \in warned

----------------------------------------------------------------------------
(* The samples of a camera and sensor over the last 5 minutes.             *)
RecentRows(camera, sensor) ==
    {i \in 1..Len(temperatures) :
        /\ temperatures[i].camera = camera
        /\ temperatures[i].sensor = sensor
        /\ temperatures[i].age <= 5}

RecentSum(camera, sensor) ==
    SumTemperature(temperatures, RecentRows(camera, sensor))

(* The default threshold the contract gives each sensor type.              *)
ContractThreshold(sensor) == IF sensor = "ccd" THEN -85 ELSE -175

(* C19: a camera and sensor with samples in the last 5 minutes is alerted  *)
(* exactly when the mean of those samples is strictly greater than the     *)
(* threshold of its sensor type, -85 C for CCD and -175 C for LN2; a mean  *)
(* equal to the threshold is no alert.                                     *)
C19_MeanAboveThresholdAlerts ==
    temp_alerts_dict # None =>
        \A camera \in Cameras, sensor \in Sensors :
            RecentRows(camera, sensor) # {} =>
                Get(temp_alerts_dict[1], KeyOf(camera, sensor), FALSE)
                = (RecentSum(camera, sensor)
                   > ContractThreshold(sensor) * Cardinality(RecentRows(camera, sensor)))

(* C20: every camera and sensor has a boolean entry in the dict, and the   *)
(* entry of a pair without samples in the history is false.                *)
C20_MissingDataIsFalse ==
    temp_alerts_dict # None =>
        \A camera \in Cameras, sensor \in Sensors :
            /\ \E item \in temp_alerts_dict[1] :
                  item[1] = KeyOf(camera, sensor) /\ item[2] \in BOOLEAN
            /\ RecentRows(camera, sensor) = {} =>
                  <<KeyOf(camera, sensor), FALSE>> \in temp_alerts_dict[1]

----------------------------------------------------------------------------
(* C21: each O2 room alert of a summary is true exactly when the reading   *)
(* of that room in the reply the enclosure check got is strictly below     *)
(* 19.5 % (195 tenths): a function of that one reply, with no memory of    *)
(* earlier readings.  After a successful enclosure check the summary's     *)
(* o2_alert is true exactly when at least one room alert is.               *)
C21_O2AlertsFollowReadings ==
    [][ Returns =>
          \A status \in EcpReplies :
              results["enclosure"] = enclosure_alerts(status) =>
                  /\ summary'.o2_room_alerts =
                         Some({<<"o2_spec_room", status.o2_percent_spectrograph < 195>>,
                               <<"o2_util_room", status.o2_percent_utilities < 195>>})
                  /\ summary'.o2_alert =
                         Some(\E item \in summary'.o2_room_alerts[1] : item[2]) ]_vars

(* C21 witness: a summary composed from a reply with the spectrograph room *)
(* below the threshold and the utilities room above it.                    *)
C21_Witness ==
    /\ pc = "returned"
    /\ results["enclosure"] =
          enclosure_alerts([NominalReply EXCEPT !.o2_percent_spectrograph = 190])
    /\ summary.o2_room_alerts = Some({<<"o2_spec_room", TRUE>>, <<"o2_util_room", FALSE>>})
    /\ summary.o2_alert = Some(TRUE)

----------------------------------------------------------------------------
(* C22: when the weather frame was fetched and has rows, the summary's     *)
(* dew_point_alert is true exactly when the temperature of the most recent *)
(* row exceeds its dew point by less than 3 degrees; a difference of       *)
(* exactly 3 is no alert, and no earlier row has a say.                    *)
C22_DewPointFromLastRow ==
    [][ (Returns /\ results["weather"].ok /\ Len(results["weather"].value) > 0) =>
          LET frame == results["weather"].value
              latest == CHOOSE i \in 1..Len(frame) : \A j \in 1..Len(frame) : frame[j].ts <= frame[i].ts
          IN summary'.dew_point_alert =
                Some(frame[latest].temperature - frame[latest].dew_point < 3) ]_vars

(* C22 witness: an earlier row 2 degrees over its dew point, the most      *)
(* recent row exactly 3 degrees over it, and no alert.                     *)
C22_Witness ==
    /\ pc = "returned"
    /\ results["weather"].ok
    /\ Len(results["weather"].value) = 2
    /\ LET frame == results["weather"].value
       IN /\ frame[1].temperature - frame[1].dew_point = 2
          /\ frame[2].temperature - frame[2].dew_point = 3
    /\ summary.dew_point_alert = Some(FALSE)

----------------------------------------------------------------------------
(* C23: the summary's engineering_override is true exactly when the        *)
(* enclosure check succeeded and its reply has engineering mode enabled,   *)
(* the PLC software bypass set or the PLC hardware bypass set; after a     *)
(* failed enclosure check the field is False, not unknown.                 *)
C23_EngineeringOverride ==
    [][ Returns =>
          \A status \in EcpReplies \cup {EcpFailedReply} :
              results["enclosure"] = enclosure_alerts(status) =>
                  summary'.engineering_override =
                      (/\ ~ status.did_fail
                       /\ \/ status.engineering_mode.enabled
                          \/ status.engineering_mode.plc_software_bypass
                          \/ status.engineering_mode.plc_hardware_bypass) ]_vars

(* C23 witness: a summary composed from a reply with only the hardware     *)
(* bypass set carries the override.                                        *)
C23_Witness ==
    /\ pc = "returned"
    /\ results["enclosure"] =
          enclosure_alerts([NominalReply EXCEPT !.engineering_mode.plc_hardware_bypass = TRUE])
    /\ summary.engineering_override = TRUE

----------------------------------------------------------------------------
(* A row of the frame whose timestamp is exactly `ago` before now.         *)
RowsAt(ago) == {i \in 1..Len(Frame) : Frame[i].ts = now * MsPerSecond - ago}

----------------------------------------------------------------------------
(* C29: the evaluator works with the reopen value its caller supplied      *)
(* whenever one is supplied, and with the threshold only when the caller   *)
(* supplied None.  A supplied 0 is the reopen level: with a breach in the  *)
(* previous window, a current window whose values all lie in               *)
(* [0, threshold) is Unsafe.                                               *)
C29_SuppliedReopenIsUsed ==
    (evaluated /\ safe # None) =>
        /\ ReopenOrThreshold(cfg.reopen_value, cfg.threshold) =
              (IF cfg.reopen_value = None THEN cfg.threshold ELSE cfg.reopen_value[1])
        /\ ( /\ cfg.reopen_value = Some(0)
             /\ CurrentWindow # {}
             /\ \A i \in CurrentWindow : ~ Breach(i) /\ Average[i].sum >= 0
             /\ \E j \in PreviousWindow : Breach(j) ) => Unsafe

----------------------------------------------------------------------------
(* The fields of a summary that the fake-state substitution leaves alone.  *)
UntouchedFields(arguments) ==
    <<arguments.dew_point_alert, arguments.o2_alert, arguments.o2_room_alerts,
      arguments.camera_temperature_alert, arguments.camera_alerts,
      arguments.overwatcher_alerts.value, arguments.engineering_override>>

(* The overlay with every value negated.                                   *)
OppositeOverlay == [k \in FakeStateKeys |-> ~ fake_states[k]]

(* C28: the fake-state substitution changes wind_alert, humidity_alert,    *)
(* rain and door_alert only.  The other fields of a returned summary are   *)
(* what the same check results give with the overlay enabled or disabled,  *)
(* with its values or with the opposite ones, and no field depends on the  *)
(* overlay's is_day.                                                       *)
C28_OverlayTouchesFourFields ==
    [][ Returns =>
          /\ \A use \in BOOLEAN, fake \in {fake_states, OppositeOverlay} :
                UntouchedFields(SummaryArguments(results, now, use, fake))
                = UntouchedFields([summary' EXCEPT
                                     !.overwatcher_alerts = Ok(summary'.overwatcher_alerts)])
          /\ \A day \in BOOLEAN :
                LET arguments == SummaryArguments(results, now, use_fake_states,
                                                  [fake_states EXCEPT !["is_day"] = day])
                IN summary' = [arguments EXCEPT
                                 !.overwatcher_alerts = arguments.overwatcher_alerts.value] ]_vars

(* C28 witness: a summary returned with the overlay enabled, is_day set    *)
(* and a wind alert that the overlay replaced, while the dew point and O2  *)
(* alerts are the computed ones.                                           *)
C28_Witness ==
    /\ pc = "returned"
    /\ use_fake_states
    /\ fake_states["is_day"]
    /\ fake_states["humidity_alert"]
    /\ summary.wind_alert # ComputedWindAlert
    /\ summary.humidity_alert = Some(TRUE)
    /\ summary.dew_point_alert = Some(FALSE)
    /\ summary.o2_alert = Some(TRUE)

----------------------------------------------------------------------------
(* C27: after any sequence of administrative calls the keys of the overlay *)
(* are exactly wind_alert, humidity_alert, rain_alert, door_alert and      *)
(* is_day.  A set request for a name that is not one of them is answered   *)
(* with HTTP 400, and a request answered with 400 leaves every value and   *)
(* the enable flag as they were.                                           *)
C27_OverlayKeysAreFixed ==
    /\ [](DOMAIN fake_states =
            {"wind_alert", "humidity_alert", "rain_alert", "door_alert", "is_day"})
    /\ [][ adminCalls' # adminCalls =>
             LET reply == admin_reply'[1]
             IN /\ (reply.endpoint = "set" /\ reply.state[1] \notin FakeStateKeys)
                      => reply.status_code = 400
                /\ reply.status_code = 400
                      => UNCHANGED <<use_fake_states, fake_states>> ]_vars

(* C27 witness: a value was set, then a set request for an unknown name    *)
(* was answered with 400, and the value set earlier is still there.        *)
C27_Witness ==
    /\ adminCalls = 2
    /\ admin_reply # None
    /\ admin_reply[1].endpoint = "set"
    /\ admin_reply[1].state = Some("bogus")
    /\ admin_reply[1].status_code = 400
    /\ fake_states["wind_alert"]

----------------------------------------------------------------------------
(* The four fields of a summary are the values the overlay holds.          *)
CarriesOverlay(response) ==
    /\ response.wind_alert = Some(fake_states["wind_alert"])
    /\ response.humidity_alert = Some(fake_states["humidity_alert"])
    /\ response.rain = Some(fake_states["rain_alert"])
    /\ response.door_alert = Some(fake_states["door_alert"])

(* C26: while fake-state mode is enabled, every response to a summary      *)
(* request carries the values the overlay holds when the response is       *)
(* produced, whether the route computes it or it is served within the      *)
(* 10 seconds for which an earlier summary is cached.                      *)
C26_ResponsesCarryOverlay ==
    [][ \A call \in Calls :
          ( /\ calls[call].pc \in {"idle", "gather"}
            /\ calls'[call].pc \in {"returned", "sent"}
            /\ use_fake_states )
          => CarriesOverlay(calls'[call].summary) ]_vars

----------------------------------------------------------------------------
(* The telescopes whose power cycle ended with an exception.               *)
FailedPowerCycles ==
    {telescope \in DOMAIN power_tasks :
        power_tasks[telescope].done /\ ~ power_tasks[telescope].ok}

(* C30: power_cycle_ag_cameras raises no exception because a power cycle   *)
(* failed.  When it returns, the errors list has one entry per failed      *)
(* power cycle, result is False exactly when there is one, the 30 s wait   *)
(* has run, and so has the reconnect when it was asked for.                *)
C30_FailuresAreCollected ==
    /\ power_pc # "raised"
    /\ power_pc = "returned" =>
          /\ Len(power_return[1].errors) = Cardinality(FailedPowerCycles)
          /\ power_return[1].result = (FailedPowerCycles = {})
          /\ "sleep" \in power_ran
          /\ power_args[1].reconnect => {"reset", "reconnect"} \subseteq power_ran

----------------------------------------------------------------------------
====
